---- MODULE Spec2Model ----
(***************************************************************************)
(* Model of utils/core/annotate.py: create_relation and group_nodes acting *)
(* on one shared graph.  Strings are sequences of one-character strings,   *)
(* so that split, lower, upper and join are computed and not assumed.      *)
(***************************************************************************)
EXTENDS Naturals, Sequences, FiniteSets, Bags, TLC

\* graph: the graph both functions mutate in place
\* call:  the latest call: its arguments, what was typed, the graph at entry
\* calls: the number of calls made
VARIABLES graph, call, calls

vars == <<graph, call, calls>>

\* ------------------------------------------------------------------ bounds
MaxCalls == 1
MaxTokens == 2
MaxGroup == 2

\* ------------------------------------------------------- string functions
\* str.lower() on one character
LowerChar(c) ==
  CASE c = "A" -> "a" [] c = "B" -> "b" [] c = "R" -> "r" [] c = "I" -> "i"
    [] c = "X" -> "x" [] OTHER -> c

\* str.upper() on one character
UpperChar(c) ==
  CASE c = "a" -> "A" [] c = "b" -> "B" [] c = "r" -> "R" [] c = "i" -> "I"
    [] c = "x" -> "X" [] OTHER -> c

Lower(s) == [i \in 1..Len(s) |-> LowerChar(s[i])]

Upper(s) == [i \in 1..Len(s) |-> UpperChar(s[i])]

LowerAll(ts) == [i \in 1..Len(ts) |-> Lower(ts[i])]

RECURSIVE SplitFrom(_, _, _, _)
SplitFrom(s, i, cur, acc) ==
  IF i > Len(s)
  THEN IF cur = <<>> THEN acc ELSE Append(acc, cur)
  ELSE IF s[i] = " "
       THEN SplitFrom(s, i + 1, <<>>, IF cur = <<>> THEN acc ELSE Append(acc, cur))
       ELSE SplitFrom(s, i + 1, Append(cur, s[i]), acc)

\* str.split() without arguments: the maximal runs of non-blank characters
Split(s) == SplitFrom(s, 1, <<>>, <<>>)

RECURSIVE Join(_, _)
\* sep.join(ts)
Join(sep, ts) ==
  IF ts = <<>> THEN <<>>
  ELSE IF Len(ts) = 1 THEN ts[1]
  ELSE ts[1] \o sep \o Join(sep, Tail(ts))

Digit(d) ==
  CASE d = 0 -> "0" [] d = 1 -> "1" [] d = 2 -> "2" [] d = 3 -> "3"
    [] d = 4 -> "4" [] d = 5 -> "5" [] d = 6 -> "6" [] d = 7 -> "7"
    [] d = 8 -> "8" [] d = 9 -> "9"

RECURSIVE Decimal(_)
\* "{}".format(i) for a natural number i
Decimal(i) == IF i < 10 THEN <<Digit(i)>> ELSE Append(Decimal(i \div 10), Digit(i % 10))

Range(f) == {f[i] : i \in DOMAIN f}

\* ------------------------------------------------------------- the graph
\* A graph is [order, attr, edges]: the node keys in insertion order, the
\* attribute dictionary of each node, and the bag of directed edges.
NoAttrs == [k \in {} |-> k]

add_node(g, n, attrs) ==
  IF n \in DOMAIN g.attr
  THEN [g EXCEPT !.attr[n] = attrs @@ @]
  ELSE [g EXCEPT !.order = Append(@, n), !.attr = (n :> attrs) @@ @]

add_edge(g, u, v) ==
  LET g1 == IF u \in DOMAIN g.attr THEN g ELSE add_node(g, u, NoAttrs)
      g2 == IF v \in DOMAIN g1.attr THEN g1 ELSE add_node(g1, v, NoAttrs)
  IN  [g2 EXCEPT !.edges = @ (+) SetToBag({<<u, v>>})]

HasKind(g, n) == "kind" \in DOMAIN g.attr[n]

\* get_node_dict(graph, kind=<kind>): the keys, in iteration order
get_node_dict_kind(g, kind) ==
  SelectSeq(g.order, LAMBDA n : HasKind(g, n) /\ g.attr[n].kind = kind)

\* get_node_dict(graph): node key -> kind
get_node_dict(g) ==
  [n \in {m \in DOMAIN g.attr : HasKind(g, m)} |-> g.attr[n].kind]

\* ------------------------------------------------ the relation catalogue
rst_relations ==
  [cause    |-> [name |-> "cause",    kind |-> "mono"],
   contrast |-> [name |-> "contrast", kind |-> "multi"]]

\* ------------------------------------------------------------- the inputs
Tokens == {<<"a">>, <<"B">>, <<"r", "1">>, <<"x">>}

TokenSeqs(n) == UNION {[1..k -> Tokens] : k \in 0..n}

\* what the user may type at a prompt
Lines == {Join(<<" ">>, ts) : ts \in TokenSeqs(MaxTokens)} \cup {<<" ">>}

GroupTokens == {<<"a">>, <<"B">>, <<"i", "0">>, <<"x">>}

GroupInputs == UNION {[1..k -> GroupTokens] : k \in 0..MaxGroup}

\* ------------------------------------------------------- create_relation
\* valid_nodes = [e.lower() for e in node_ix.keys()]
valid_nodes(g) == LowerAll(get_node_dict_kind(g, "node"))

Alias(i) == <<"r">> \o Decimal(i)

\* relation_ix = {"r{}".format(i): k for i, (k, v) in enumerate(..., start=1)}
relation_ix(g) ==
  LET rels == get_node_dict_kind(g, "relation")
  IN  [a \in {Alias(i) : i \in 1..Len(rels)} |->
         rels[CHOOSE i \in 1..Len(rels) : Alias(i) = a]]

\* valid_rels = [r.lower() for r in relation_ix.keys()]
valid_rels(ix) == {Lower(r) : r \in DOMAIN ix}

\* valid_ids = set(valid_nodes + valid_rels)
valid_ids(g) == Range(valid_nodes(g)) \cup valid_rels(relation_ix(g))

\* the test written as len(nucleus) > 1: an empty nucleus line passes
nucleus_err_empty_passes(nucleus) == Len(nucleus) > 1

\* if len(nucleus) != 1
nucleus_err(nucleus) == Len(nucleus) # 1

\* if len(nuclei) <= 1
nuclei_err(nuclei) == Len(nuclei) <= 1

\* if not set(tokens).issubset(valid_ids)
not_subset(tokens, valid) == ~(Range(tokens) \subseteq valid)

\* .upper() applied to the nucleus alone
mono_new_relation_satellites_as_typed(nucleus, satellites) ==
  Upper(Join(<<>>, nucleus)) \o <<"-">> \o Join(<<"+">>, satellites)

\* new_relation = ''.join(nucleus).upper() + '-' + '+'.join(satellites).upper()
mono_new_relation(nucleus, satellites) ==
  Upper(Join(<<>>, nucleus)) \o <<"-">> \o Upper(Join(<<"+">>, satellites))

\* new_relation = '+'.join(nuclei).upper()
multi_new_relation(nuclei) == Upper(Join(<<"+">>, nuclei))

\* the origin of the edge drawn for a satellite
satellite_origin(s, ix) == IF s \in DOMAIN ix THEN ix[s] ELSE Upper(s)

\* the origin of the edge drawn for the nucleus of a mononuclear relation
nucleus_origin(n) == Upper(n)

\* the origin of the edge drawn for a nucleus of a multinuclear relation
nuclei_origin(n, ix) == IF n \in DOMAIN ix THEN ix[n] ELSE Upper(n)

RECURSIVE add_edges(_, _, _)
\* for u in origins: graph.add_edge(u, target)
add_edges(g, origins, target) ==
  IF origins = <<>> THEN g
  ELSE add_edges(add_edge(g, Head(origins), target), Tail(origins), target)

mono_add(g, keyword, nucleus, satellites, ix) ==
  LET new_relation == mono_new_relation(nucleus, satellites)
      g1 == add_node(g, new_relation,
                     [kind |-> "relation", nucleus |-> nucleus,
                      satellites |-> satellites,
                      name |-> rst_relations[keyword].name,
                      id |-> new_relation])
      g2 == add_edges(g1, [i \in 1..Len(satellites) |->
                             satellite_origin(satellites[i], ix)], new_relation)
  IN  add_edges(g2, [i \in 1..Len(nucleus) |-> nucleus_origin(nucleus[i])],
                new_relation)

multi_add(g, keyword, nuclei, ix) ==
  LET new_relation == multi_new_relation(nuclei)
      g1 == add_node(g, new_relation,
                     [kind |-> "relation", nuclei |-> nuclei,
                      name |-> rst_relations[keyword].name,
                      id |-> new_relation])
  IN  add_edges(g1, [i \in 1..Len(nuclei) |-> nuclei_origin(nuclei[i], ix)],
                new_relation)

\* The record of a create_relation call: its inputs, its locals, the graph
\* at entry and the way it ended.
RelationCall(keyword, lines, nucleus, satellites, nuclei, outcome) ==
  [op |-> "create_relation", user_input |-> keyword, lines |-> lines,
   nucleus |-> nucleus, satellites |-> satellites, nuclei |-> nuclei,
   outcome |-> outcome, pre |-> graph]

CreateMono(keyword) ==
  \E line1 \in Lines :
    LET nucleus == LowerAll(Split(line1))
        ix == relation_ix(graph)
        valid == valid_ids(graph)
    IN  IF nucleus_err(nucleus)
        THEN /\ graph' = graph
             /\ call' = RelationCall(keyword, <<line1>>, nucleus, <<>>, <<>>,
                                     "nucleus_err")
        ELSE IF not_subset(nucleus, valid)
        THEN /\ graph' = graph
             /\ call' = RelationCall(keyword, <<line1>>, nucleus, <<>>, <<>>,
                                     "invalid_nucleus")
        ELSE \E line2 \in Lines :
               LET satellites == LowerAll(Split(line2))
               IN  IF not_subset(satellites, valid)
                   THEN /\ graph' = graph
                        /\ call' = RelationCall(keyword, <<line1, line2>>,
                                     nucleus, satellites, <<>>,
                                     "invalid_satellites")
                   ELSE /\ graph' = mono_add(graph, keyword, nucleus,
                                             satellites, ix)
                        /\ call' = RelationCall(keyword, <<line1, line2>>,
                                     nucleus, satellites, <<>>, "added")

CreateMulti(keyword) ==
  \E line1 \in Lines :
    LET nuclei == LowerAll(Split(line1))
        ix == relation_ix(graph)
        valid == valid_ids(graph)
    IN  IF nuclei_err(nuclei)
        THEN /\ graph' = graph
             /\ call' = RelationCall(keyword, <<line1>>, <<>>, <<>>, nuclei,
                                     "nuclei_err")
        ELSE IF not_subset(nuclei, valid)
        THEN /\ graph' = graph
             /\ call' = RelationCall(keyword, <<line1>>, <<>>, <<>>, nuclei,
                                     "invalid_nuclei")
        ELSE /\ graph' = multi_add(graph, keyword, nuclei, ix)
             /\ call' = RelationCall(keyword, <<line1>>, <<>>, <<>>, nuclei,
                                     "added")

create_relation ==
  /\ calls < MaxCalls
  /\ calls' = calls + 1
  /\ \E keyword \in DOMAIN rst_relations :
       /\ rst_relations[keyword].kind = "mono" => CreateMono(keyword)
       /\ rst_relations[keyword].kind = "multi" => CreateMulti(keyword)

\* ------------------------------------------------------------ group_nodes
RECURSIVE edges_to(_, _, _)
\* for valid_elem in user_input: graph.add_edge(valid_elem.upper(), k.upper())
edges_to(g, user_input, k) ==
  IF user_input = <<>> THEN g
  ELSE edges_to(add_edge(g, Upper(Head(user_input)), Upper(k)),
                Tail(user_input), k)

RECURSIVE fan_out(_, _, _)
\* the edges to each key of ks in turn
fan_out(g, ks, user_input) ==
  IF ks = <<>> THEN g
  ELSE fan_out(edges_to(g, user_input, Head(ks)), Tail(ks), user_input)

\* the filter "if v == 'imageConsts'" left out: edges to every node
image_consts_edges_unfiltered(g, node_dict, user_input) ==
  fan_out(g, SelectSeq(g.order, LAMBDA k : k \in DOMAIN node_dict), user_input)

\* the imageConsts branch: an edge from every input to every imageConsts node
image_consts_edges(g, node_dict, user_input) ==
  fan_out(g,
          SelectSeq(g.order, LAMBDA k : k \in DOMAIN node_dict
                                          /\ node_dict[k] = "imageConsts"),
          user_input)

\* new_node = '+'.join(user_input).upper()
group_new_node(user_input) == Upper(Join(<<"+">>, user_input))

\* the composite branch: one group node and an edge from every input to it
group_add(g, user_input) ==
  LET new_node == group_new_node(user_input)
      g1 == add_node(g, new_node, [kind |-> "group"])
  IN  add_edges(g1, [i \in 1..Len(user_input) |-> Upper(user_input[i])],
                new_node)

GroupCall(user_input, outcome) ==
  [op |-> "group_nodes", user_input |-> user_input, outcome |-> outcome,
   pre |-> graph]

group_nodes ==
  /\ calls < MaxCalls
  /\ calls' = calls + 1
  /\ \E user_input \in GroupInputs :
       LET node_dict == get_node_dict(graph)
       IN  IF \E i \in 1..Len(user_input) :
                 Upper(user_input[i]) \notin DOMAIN node_dict
           THEN /\ graph' = graph
                /\ call' = GroupCall(user_input, "KeyError")
           ELSE IF \E i \in 1..Len(user_input) :
                     node_dict[Upper(user_input[i])] = "imageConsts"
           THEN /\ graph' = image_consts_edges(graph, node_dict, user_input)
                /\ call' = GroupCall(user_input, "imageConsts")
           ELSE /\ graph' = group_add(graph, user_input)
                /\ call' = GroupCall(user_input, "group")

\* ------------------------------------------------------------------ Init
\* The graph belongs to the caller.  A fresh annotation graph: two diagram
\* elements and two image constants, no edges.
FreshGraph ==
  [order |-> << <<"A">>, <<"B">>, <<"I", "0">>, <<"I", "1">> >>,
   attr  |-> (<<"A">> :> [kind |-> "node"]) @@ (<<"B">> :> [kind |-> "node"])
             @@ (<<"I", "0">> :> [kind |-> "imageConsts"])
             @@ (<<"I", "1">> :> [kind |-> "imageConsts"]),
   edges |-> EmptyBag]

\* The graphs a call may be handed: the fresh graph, the fresh graph after
\* create_relation("cause") with nucleus "a" and satellites "b", and the
\* fresh graph after group_nodes(["A", "B"]).
InitGraphs ==
  {FreshGraph,
   mono_add(FreshGraph, "cause", << <<"a">> >>, << <<"b">> >>,
            relation_ix(FreshGraph)),
   group_add(FreshGraph, << <<"A">>, <<"B">> >>)}

NoCall == [op |-> "none"]

Init ==
  /\ graph \in InitGraphs
  /\ call = NoCall
  /\ calls = 0

Next == create_relation \/ group_nodes

Spec == Init /\ [][Next]_vars

\* =================================================================== claims
\* What the claims speak of, stated from their own words.

\* the node keys of a graph
Nodes(g) == DOMAIN g.attr

\* the keys of the nodes of a given kind
NodesOfKind(g, kind) ==
  {n \in Nodes(g) : "kind" \in DOMAIN g.attr[n] /\ g.attr[n].kind = kind}

\* valid_ids as the claims define it: the lower-cased keys of the kind-"node"
\* nodes and the aliases r1..rk of the k relation nodes
ClaimValidIds(g) ==
  {Lower(n) : n \in NodesOfKind(g, "node")}
    \cup {Alias(i) : i \in 1..Cardinality(NodesOfKind(g, "relation"))}

\* the nodes a call added and the number of copies of an edge it added
NewNodes == Nodes(graph) \ Nodes(call.pre)

Gained(e) == CopiesIn(e, graph.edges) - CopiesIn(e, call.pre.edges)

EdgesGained == BagCardinality(graph.edges) - BagCardinality(call.pre.edges)

GainedEdges == {e \in BagToSet(graph.edges) : Gained(e) > 0}

IsRelationCall == call.op = "create_relation"

IsMono == IsRelationCall /\ rst_relations[call.user_input].kind = "mono"

IsMulti == IsRelationCall /\ rst_relations[call.user_input].kind = "multi"

IsGroupCall == call.op = "group_nodes"

\* the tokens as typed at the k-th prompt of the call
Typed(k) == Split(call.lines[k])

\* upper-case each token, then join them
JoinUpper(sep, ts) == Join(sep, [i \in 1..Len(ts) |-> Upper(Lower(ts[i]))])

\* a create_relation call that fails validation
ValidationFails ==
  \/ /\ IsMono
     /\ \/ Len(call.nucleus) # 1
        \/ \E t \in Range(call.nucleus) \cup Range(call.satellites) :
             t \notin ClaimValidIds(call.pre)
  \/ /\ IsMulti
     /\ \/ Len(call.nuclei) \in {0, 1}
        \/ \E t \in Range(call.nuclei) : t \notin ClaimValidIds(call.pre)

\* a create_relation call on valid mononuclear input
ValidMono ==
  /\ IsMono
  /\ Len(call.nucleus) = 1
  /\ Len(call.lines) = 2
  /\ Len(call.satellites) >= 1
  /\ Range(call.nucleus) \cup Range(call.satellites)
       \subseteq ClaimValidIds(call.pre)

\* a create_relation call on valid multinuclear input
ValidMulti ==
  /\ IsMulti
  /\ Len(call.nuclei) >= 2
  /\ Range(call.nuclei) \subseteq ClaimValidIds(call.pre)

\* a create_relation call that passed validation
Successful ==
  \/ IsMono /\ Len(call.lines) = 2 /\ ~ValidationFails
  \/ IsMulti /\ ~ValidationFails

\* the ID the claims give the new relation
ExpectedRelationId ==
  IF IsMono
  THEN JoinUpper(<<>>, Typed(1)) \o <<"-">> \o JoinUpper(<<"+">>, Typed(2))
  ELSE JoinUpper(<<"+">>, Typed(1))

\* C1: a create_relation call that fails validation (mononuclear nucleus
\* count other than 1, multinuclear nuclei count 0 or 1, or a token outside
\* valid_ids) leaves the graph unchanged: same nodes, attributes and edges.
C1_FailureLeavesGraphUnchanged == ValidationFails => graph = call.pre

\* C1 witness: on a graph that holds a relation, a satellites line naming the
\* relation by its alias and an unknown identifier has been rejected
C1_Witness ==
  /\ ValidationFails
  /\ IsMono
  /\ Len(call.nucleus) = 1
  /\ Len(call.lines) = 2
  /\ NodesOfKind(call.pre, "relation") # {}
  /\ \E t \in Range(call.satellites) : t \in ClaimValidIds(call.pre)
  /\ \E t \in Range(call.satellites) : t \notin ClaimValidIds(call.pre)
  /\ graph = call.pre

\* C2: valid mononuclear input adds exactly one node, of kind "relation", and
\* exactly len(satellites) + 1 edges, each directed into the new node.
C2_MonoAddsOneNodeAndEdges ==
  ValidMono =>
    /\ Cardinality(NewNodes) = 1
    /\ \A n \in NewNodes : n \in NodesOfKind(graph, "relation")
    /\ EdgesGained = Len(call.satellites) + 1
    /\ \A e \in GainedEdges : e[2] \in NewNodes

\* C3: valid multinuclear input adds exactly one node and exactly
\* len(nuclei) edges.
C3_MultiAddsOneNodeAndEdges ==
  ValidMulti =>
    /\ Cardinality(NewNodes) = 1
    /\ EdgesGained = Len(call.nuclei)

\* C4: in a successful create_relation call, every participant token that is
\* an alias ri of an existing relation node has its edge drawn from that
\* node's real ID, and no edge is drawn from the upper-cased alias token.
C4_AliasResolved ==
  Successful =>
    LET rels == SelectSeq(call.pre.order,
                          LAMBDA n : n \in NodesOfKind(call.pre, "relation"))
        participants == Range(call.nucleus) \cup Range(call.satellites)
                          \cup Range(call.nuclei)
    IN  \A i \in 1..Len(rels) :
          Alias(i) \in participants =>
            /\ Gained(<<rels[i], ExpectedRelationId>>) >= 1
            /\ \A e \in GainedEdges : e[1] # Upper(Alias(i))

\* C5: group_nodes on identifiers that all exist and none of which is of kind
\* "imageConsts" adds exactly one node, of kind "group", keyed by the
\* upper-cased '+'-join of the inputs, and exactly len(user_input) edges into
\* it, one from each input.
C5_GroupAddsOneNode ==
  ( /\ IsGroupCall
    /\ \A u \in Range(call.user_input) :
         /\ Upper(u) \in Nodes(call.pre)
         /\ Upper(u) \notin NodesOfKind(call.pre, "imageConsts") )
  =>
    LET id == JoinUpper(<<"+">>, call.user_input)
    IN  /\ NewNodes = {id}
        /\ id \in NodesOfKind(graph, "group")
        /\ EdgesGained = Len(call.user_input)
        /\ \A e \in GainedEdges : e[2] = id
        /\ \A u \in Range(call.user_input) :
             Gained(<<Upper(u), id>>) =
               Cardinality({i \in 1..Len(call.user_input) :
                              call.user_input[i] = u})

\* a group_nodes call whose identifiers exist, one of them of kind imageConsts
ImageConstsCall ==
  /\ IsGroupCall
  /\ \A u \in Range(call.user_input) : Upper(u) \in Nodes(call.pre)
  /\ \E u \in Range(call.user_input) :
       Upper(u) \in NodesOfKind(call.pre, "imageConsts")

\* C6: group_nodes on identifiers that all exist, at least one of kind
\* "imageConsts", adds no node, and adds len(user_input) times the number of
\* imageConsts nodes many edges.
C6_ImageConstsFanOut ==
  ImageConstsCall =>
    /\ Nodes(graph) = Nodes(call.pre)
    /\ EdgesGained =
         Len(call.user_input)
           * Cardinality(NodesOfKind(call.pre, "imageConsts"))

\* C6 witness: two identifiers, one imageConsts among two in the graph
C6_Witness ==
  /\ ImageConstsCall
  /\ Len(call.user_input) = 2
  /\ Cardinality(NodesOfKind(call.pre, "imageConsts")) = 2
  /\ \E u \in Range(call.user_input) :
       Upper(u) \notin NodesOfKind(call.pre, "imageConsts")
  /\ EdgesGained = 4

\* C7: a call never modifies or deletes a node or an edge that existed
\* before it, also when the new ID equals the ID of an existing node.
C7_ExistingUntouched ==
  call.op # "none" =>
    /\ \A n \in Nodes(call.pre) :
         n \in Nodes(graph) /\ graph.attr[n] = call.pre.attr[n]
    /\ call.pre.edges \sqsubseteq graph.edges

\* C8: the new relation node's key and id attribute are the same string,
\* built from the typed tokens (nucleus '-' satellites joined by '+', or the
\* nuclei joined by '+', upper-cased); its nucleus/satellites or nuclei hold
\* the lower-cased tokens and its name the display name of the keyword.
C8_RelationIdAndAttributes ==
  Successful =>
    LET id == ExpectedRelationId
    IN  /\ id \in Nodes(graph)
        /\ graph.attr[id].id = id
        /\ graph.attr[id].kind = "relation"
        /\ graph.attr[id].name = rst_relations[call.user_input].name
        /\ IsMono => /\ graph.attr[id].nucleus = LowerAll(Typed(1))
                     /\ graph.attr[id].satellites = LowerAll(Typed(2))
        /\ IsMulti => graph.attr[id].nuclei = LowerAll(Typed(1))

\* C8 witness: a mononuclear relation with two satellites, one typed in
\* upper case, has been added
C8_Witness ==
  /\ Successful
  /\ IsMono
  /\ Len(Typed(2)) = 2
  /\ \E t \in Range(Typed(2)) : Lower(t) # t
  /\ ExpectedRelationId \in NewNodes

\* C9: every relation node respects the arity of its shape: one nucleus and
\* at least one satellite, or at least two nuclei.
C9_RelationArity ==
  \A n \in NodesOfKind(graph, "relation") :
    /\ "satellites" \in DOMAIN graph.attr[n] =>
         /\ Len(graph.attr[n].nucleus) = 1
         /\ Len(graph.attr[n].satellites) >= 1
    /\ "nuclei" \in DOMAIN graph.attr[n] => Len(graph.attr[n].nuclei) >= 2

\* C10: every node carries a kind and both endpoints of every edge are such
\* nodes.
C10_EveryNodeHasKind ==
  /\ \A n \in Nodes(graph) : "kind" \in DOMAIN graph.attr[n]
  /\ \A e \in BagToSet(graph.edges) :
       e[1] \in Nodes(graph) /\ e[2] \in Nodes(graph)

====
